---- MODULE Spec2Model ----
(***************************************************************************)
(* Model of the correlation-heatmap application:                           *)
(*   - the colour utilities of src/src/utils/colors.js (hexToRgb,          *)
(*     rgbToHex, lerpColor, colorFor) as operators over strings and        *)
(*     numbers;                                                            *)
(*   - the App component of src/tailwind.config.js (lines 18-432) as a     *)
(*     state machine over its useState cells and its event handlers.       *)
(*                                                                         *)
(* Strings are sequences of one-character strings, so "#0a" is             *)
(* <<"#","0","a">>.  A JavaScript number is an exact fraction <<n, d>>     *)
(* with d > 0.  Every number the model feeds to the colour functions is    *)
(* either a multiple of 1/2^k (where IEEE-754 double arithmetic on the     *)
(* expressions of colors.js is exact) or i/7 of the legend (where the      *)
(* exact channel value is never within 1/14 of a rounding tie), so exact   *)
(* fractions round to the same integers as the doubles do.                 *)
(***************************************************************************)
EXTENDS Integers, Sequences, FiniteSets, TLC

VARIABLES
    \* ---- App component state (useState cells) ----
    hoveredCell, hoveredRow, hoveredCol, specificPeriod, showColorPicker,
    highColor, lowColor, isExporting, showExportOptions,
    \* ---- App: asynchronous exports in flight, environment, render output ----
    exportPc,      \* position of each exportAsImage invocation
    pointer,       \* the matrix cell the mouse pointer is in, or null
    snapshot,      \* hover state of the matrix html2canvas is rasterizing, or null
    legendDots,    \* the legend dots of the last render
    lastOp,        \* the handler that ran last
    \* ---- colour-function calls ----
    fn, hex1, hex2, num, ret, prevNum, prevRet

appVars == <<hoveredCell, hoveredRow, hoveredCol, specificPeriod, showColorPicker,
             highColor, lowColor, isExporting, showExportOptions,
             exportPc, pointer, snapshot, legendDots, lastOp>>
callVars == <<fn, hex1, hex2, num, ret, prevNum, prevRet>>
vars == <<appVars, callVars>>

-----------------------------------------------------------------------------
(* Bounds *)

\* values and factors are multiples of 1 / 2^ValueBits
ValueBits == 2
\* correlation values range over [-MaxAbsValue, MaxAbsValue]
MaxAbsValue == 5
\* number of assets of the data set (rows and columns of the matrix)
NumAssets == 2
\* number of exportAsImage invocations that may be in flight
MaxExports == 2

-----------------------------------------------------------------------------
(* JavaScript values *)

null == [null |-> TRUE]

\* the thrown Error of lerpColor, as the outcome of a call
InvalidHexError == <<"Error: Invalid hex color provided">>

HexDigits == <<"0","1","2","3","4","5","6","7","8","9","a","b","c","d","e","f">>
UpperHexDigits == <<"0","1","2","3","4","5","6","7","8","9","A","B","C","D","E","F">>

\* the characters [a-f\d] matches under the i flag, each with its digit value
HexValue ==
    [c \in {HexDigits[i] : i \in 1..16} \cup {UpperHexDigits[i] : i \in 1..16} |->
        CHOOSE v \in 0..15 : c = HexDigits[v + 1] \/ c = UpperHexDigits[v + 1]]

IsHexChar(c) == c \in DOMAIN HexValue

\* value of one hexadecimal digit, either case
DigitValue(c) == HexValue[c]

\* parseInt(s, 16) on a two-digit group of the match
parseInt16(s) == 16 * DigitValue(s[1]) + DigitValue(s[2])

\* numbers: <<n, d>> is n/d, d > 0
Int2Num(i) == <<i, 1>>
NumAdd(a, b) == <<a[1] * b[2] + b[1] * a[2], a[2] * b[2]>>
NumSub(a, b) == <<a[1] * b[2] - b[1] * a[2], a[2] * b[2]>>
NumMul(a, b) == <<a[1] * b[1], a[2] * b[2]>>
NumDiv(a, k) == <<a[1], a[2] * k>>
NumLe(a, b) == a[1] * b[2] <= b[1] * a[2]
NumLt(a, b) == a[1] * b[2] < b[1] * a[2]
NumEq(a, b) == a[1] * b[2] = b[1] * a[2]
MathMin(a, b) == IF NumLe(a, b) THEN a ELSE b
MathMax(a, b) == IF NumLe(b, a) THEN a ELSE b
\* Math.round: the nearest integer, ties toward +Infinity
MathRound(a) == (2 * a[1] + a[2]) \div (2 * a[2])

\* Number.prototype.toString(16) of an integer
RECURSIVE Digits16(_)
Digits16(n) == IF n < 16 THEN <<HexDigits[n + 1]>>
               ELSE Digits16(n \div 16) \o <<HexDigits[(n % 16) + 1]>>
toString16(n) == IF n < 0 THEN <<"-">> \o Digits16(-n) ELSE Digits16(n)

-----------------------------------------------------------------------------
(* src/src/utils/colors.js *)

\* hexToRgb with the pattern's closing $ left out
hexToRgbUnanchored(hex) ==
    LET digits == IF Len(hex) > 0 /\ hex[1] = "#" THEN Tail(hex) ELSE hex
    IN  IF Len(digits) >= 6 /\ \A i \in 1..6 : IsHexChar(digits[i])
        THEN [r |-> parseInt16(SubSeq(digits, 1, 2)),
              g |-> parseInt16(SubSeq(digits, 3, 4)),
              b |-> parseInt16(SubSeq(digits, 5, 6))]
        ELSE null

\* /^#?([a-f\d]{2})([a-f\d]{2})([a-f\d]{2})$/i
hexToRgb(hex) ==
    LET digits == IF Len(hex) > 0 /\ hex[1] = "#" THEN Tail(hex) ELSE hex
    IN  IF Len(digits) = 6 /\ \A i \in 1..6 : IsHexChar(digits[i])
        THEN [r |-> parseInt16(SubSeq(digits, 1, 2)),
              g |-> parseInt16(SubSeq(digits, 3, 4)),
              b |-> parseInt16(SubSeq(digits, 5, 6))]
        ELSE null

\* toHex without the zero padding
toHexNoPad(n) == toString16(MathRound(n))

toHex(n) ==
    LET hex == toString16(MathRound(n))
    IN  IF Len(hex) = 1 THEN <<"0">> \o hex ELSE hex

rgbToHex(r, g, b) == <<"#">> \o toHex(r) \o toHex(g) \o toHex(b)

\* lerpColor interpolating from the second colour to the first
lerpColorFromSecond(hex1_, hex2_, t) ==
    LET rgb1 == hexToRgb(hex1_)
        rgb2 == hexToRgb(hex2_)
    IN  IF rgb1 = null \/ rgb2 = null
        THEN InvalidHexError
        ELSE LET r == NumAdd(Int2Num(rgb2.r), NumMul(Int2Num(rgb1.r - rgb2.r), t))
                 g == NumAdd(Int2Num(rgb2.g), NumMul(Int2Num(rgb1.g - rgb2.g), t))
                 b == NumAdd(Int2Num(rgb2.b), NumMul(Int2Num(rgb1.b - rgb2.b), t))
             IN  rgbToHex(r, g, b)

\* lerpColor taking black for a colour that does not parse, instead of throwing
lerpColorSilentDefault(hex1_, hex2_, t) ==
    LET black == [r |-> 0, g |-> 0, b |-> 0]
        rgb1 == IF hexToRgb(hex1_) = null THEN black ELSE hexToRgb(hex1_)
        rgb2 == IF hexToRgb(hex2_) = null THEN black ELSE hexToRgb(hex2_)
        r == NumAdd(Int2Num(rgb1.r), NumMul(Int2Num(rgb2.r - rgb1.r), t))
        g == NumAdd(Int2Num(rgb1.g), NumMul(Int2Num(rgb2.g - rgb1.g), t))
        b == NumAdd(Int2Num(rgb1.b), NumMul(Int2Num(rgb2.b - rgb1.b), t))
    IN  rgbToHex(r, g, b)

lerpColor(hex1_, hex2_, t) ==
    LET rgb1 == hexToRgb(hex1_)
        rgb2 == hexToRgb(hex2_)
    IN  IF rgb1 = null \/ rgb2 = null
        THEN InvalidHexError
        ELSE LET r == NumAdd(Int2Num(rgb1.r), NumMul(Int2Num(rgb2.r - rgb1.r), t))
                 g == NumAdd(Int2Num(rgb1.g), NumMul(Int2Num(rgb2.g - rgb1.g), t))
                 b == NumAdd(Int2Num(rgb1.b), NumMul(Int2Num(rgb2.b - rgb1.b), t))
             IN  rgbToHex(r, g, b)

\* the factor without the shift of [-1, 1] onto [0, 2]
colorForTNoShift(value) ==
    MathMax(Int2Num(0), MathMin(Int2Num(1), NumDiv(value, 2)))

\* the factor without the clamp to [0, 1]
colorForTUnclamped(value) == NumDiv(NumAdd(value, Int2Num(1)), 2)

\* const t = Math.max(0, Math.min(1, (value + 1) / 2))
colorForT(value) ==
    MathMax(Int2Num(0), MathMin(Int2Num(1), NumDiv(NumAdd(value, Int2Num(1)), 2)))

\* colorFor passing t where the code passes 1 - t
colorForNoInversion(value, highColor_, lowColor_) ==
    lerpColor(highColor_, lowColor_, colorForT(value))

colorFor(value, highColor_, lowColor_) ==
    lerpColor(highColor_, lowColor_, NumSub(Int2Num(1), colorForT(value)))

\* the default parameter values of colorFor
ColorForDefaultHigh == <<"#","2","B","6","5","D","B">>
ColorForDefaultLow == <<"#","C","C","D","A","F","6">>

-----------------------------------------------------------------------------
(* Inputs of the colour-function calls *)

RECURSIVE Pow2(_)
Pow2(k) == IF k = 0 THEN 1 ELSE 2 * Pow2(k - 1)
ValueDen == Pow2(ValueBits)

\* correlation values: the grid over [-1, 1], one step outside it on each
\* side, and the integers out to +-MaxAbsValue
Values ==
    { <<n, ValueDen>> : n \in (-(ValueDen + 1)..(ValueDen + 1))
                              \cup { k * ValueDen : k \in (-MaxAbsValue)..MaxAbsValue } }

\* interpolation factors: the grid over [0, 1] and one step outside it
Factors == { <<n, ValueDen>> : n \in (-1)..(ValueDen + 1) }

ValidHexInputs ==
    { <<"#","0","0","4","6","D","4">>,      \* App's initial highColor
      <<"#","C","C","D","A","F","6">>,      \* App's initial lowColor
      <<"#","0","a","0","b","0","c">>,
      <<"0","a","0","b","0","c">>,          \* no leading '#'
      <<"#","f","f","0","0","8","0">> }

InvalidHexInputs ==
    { <<"n","o","t","-","a","-","c","o","l","o","r">>,
      <<"#","1","2","3","4","5">>,
      <<"#","G","G","G","G","G","G">>,
      <<"#","f","f","f">>,
      <<"#","1","2","3","4","5","6","7">> }

HexInputs == ValidHexInputs \cup InvalidHexInputs

-----------------------------------------------------------------------------
(* src/tailwind.config.js: the App component *)

\* useState('#0046D4'), useState('#CCDAF6')
InitialHighColor == <<"#","0","0","4","6","D","4">>
InitialLowColor == <<"#","C","C","D","A","F","6">>

\* setHighColor('#0046D4'), setLowColor('#CCDAF6') of resetColors
ResetHighColor == <<"#","0","0","4","6","D","4">>
ResetLowColor == <<"#","C","C","D","A","F","6">>

\* the two index cells hold a row or column index or null; null is NullIndex there
NullIndex == -1

\* values an <input type="color"> reports: lowercase "#rrggbb"
PickerColors ==
    { <<"#","0","0","4","6","d","4">>,
      <<"#","c","c","d","a","f","6">>,
      <<"#","c","c","d","a","f","9">> }

\* the data set: a lower-triangular matrix, null above the diagonal
Assets == 0..(NumAssets - 1)
matrix(i, j) ==
    IF j > i THEN null
    ELSE IF i = j THEN <<100, 100>>
    ELSE IF i = 1 THEN <<89, 100>>
    ELSE IF i = 2 /\ j = 0 THEN <<70, 100>>
    ELSE IF i = 2 /\ j = 1 THEN <<49, 100>>
    ELSE <<0, 100>>

isVisible(rowIndex, colIndex) == colIndex <= rowIndex /\ matrix(rowIndex, colIndex) # null

\* for (let i = 0; i < 8; i++) { const t = i / 7; ... }
LegendSteps == 8
LegendDivisor == 7

\* the legend with t = i / 8
generateLegendDotsOverSteps(lowColor_, highColor_) ==
    [k \in 1..LegendSteps |-> lerpColor(lowColor_, highColor_, <<k - 1, LegendSteps>>)]

generateLegendDots(lowColor_, highColor_) ==
    [k \in 1..LegendSteps |-> lerpColor(lowColor_, highColor_, <<k - 1, LegendDivisor>>)]

ExportIds == 1..MaxExports

\* what every handler leaves alone unless it says otherwise
NoCall == UNCHANGED callVars

\* the re-render that follows a handler's state updates
Render == legendDots' = generateLegendDots(lowColor', highColor')

AppInit ==
    /\ hoveredCell = null
    /\ hoveredRow = NullIndex
    /\ hoveredCol = NullIndex
    /\ specificPeriod = TRUE
    /\ showColorPicker = FALSE
    /\ highColor = InitialHighColor
    /\ lowColor = InitialLowColor
    /\ isExporting = FALSE
    /\ showExportOptions = FALSE
    /\ exportPc = [e \in ExportIds |-> "idle"]
    /\ pointer = null
    /\ snapshot = null
    /\ legendDots = generateLegendDots(InitialLowColor, InitialHighColor)
    /\ lastOp = "mount"

CallIdle ==
    /\ fn = "none"
    /\ hex1 = <<>>
    /\ hex2 = <<>>
    /\ num = Int2Num(0)
    /\ ret = <<>>
    /\ prevNum = Int2Num(0)
    /\ prevRet = <<>>

Init == AppInit /\ CallIdle

\* onMouseEnter={() => isVisible && handleCellHover(rowIndex, colIndex, value)}
handleCellHover(rowIndex, colIndex) ==
    /\ pointer = null
    /\ isVisible(rowIndex, colIndex)
    /\ pointer' = [row |-> rowIndex, col |-> colIndex]
    /\ hoveredCell' = [row |-> rowIndex, col |-> colIndex, value |-> matrix(rowIndex, colIndex)]
    /\ hoveredRow' = rowIndex
    /\ hoveredCol' = colIndex
    /\ lastOp' = "handleCellHover"
    /\ UNCHANGED <<specificPeriod, showColorPicker, highColor, lowColor, isExporting,
                   showExportOptions, exportPc, snapshot>>
    /\ Render /\ NoCall

\* onMouseLeave={handleCellLeave}
handleCellLeave ==
    /\ pointer # null
    /\ pointer' = null
    /\ hoveredCell' = null
    /\ hoveredRow' = NullIndex
    /\ hoveredCol' = NullIndex
    /\ lastOp' = "handleCellLeave"
    /\ UNCHANGED <<specificPeriod, showColorPicker, highColor, lowColor, isExporting,
                   showExportOptions, exportPc, snapshot>>
    /\ Render /\ NoCall

\* onClick={() => setShowColorPicker(!showColorPicker)}
toggleColorPicker ==
    /\ showColorPicker' = ~showColorPicker
    /\ lastOp' = "toggleColorPicker"
    /\ UNCHANGED <<hoveredCell, hoveredRow, hoveredCol, specificPeriod, highColor, lowColor,
                   isExporting, showExportOptions, exportPc, pointer, snapshot>>
    /\ Render /\ NoCall

\* onChange={(e) => setLowColor(e.target.value)}, in the colour-picker panel
setLowColor(c) ==
    /\ showColorPicker
    /\ lowColor' = c
    /\ lastOp' = "setLowColor"
    /\ UNCHANGED <<hoveredCell, hoveredRow, hoveredCol, specificPeriod, showColorPicker,
                   highColor, isExporting, showExportOptions, exportPc, pointer, snapshot>>
    /\ Render /\ NoCall

\* onChange={(e) => setHighColor(e.target.value)}, in the colour-picker panel
setHighColor(c) ==
    /\ showColorPicker
    /\ highColor' = c
    /\ lastOp' = "setHighColor"
    /\ UNCHANGED <<hoveredCell, hoveredRow, hoveredCol, specificPeriod, showColorPicker,
                   lowColor, isExporting, showExportOptions, exportPc, pointer, snapshot>>
    /\ Render /\ NoCall

\* resetColors that also closes the colour-picker panel
resetColorsClosingPicker ==
    /\ showColorPicker
    /\ highColor' = ResetHighColor
    /\ lowColor' = ResetLowColor
    /\ showColorPicker' = FALSE
    /\ lastOp' = "resetColors"
    /\ UNCHANGED <<hoveredCell, hoveredRow, hoveredCol, specificPeriod,
                   isExporting, showExportOptions, exportPc, pointer, snapshot>>
    /\ Render /\ NoCall

\* the Reset button of the colour-picker panel
resetColors ==
    /\ showColorPicker
    /\ highColor' = ResetHighColor
    /\ lowColor' = ResetLowColor
    /\ lastOp' = "resetColors"
    /\ UNCHANGED <<hoveredCell, hoveredRow, hoveredCol, specificPeriod, showColorPicker,
                   isExporting, showExportOptions, exportPc, pointer, snapshot>>
    /\ Render /\ NoCall

\* exportAsImage up to its first await: the state updates and the 100 ms timer
exportAsImage(e) ==
    /\ exportPc[e] = "idle"
    /\ isExporting' = TRUE
    /\ showExportOptions' = FALSE
    /\ hoveredCell' = null
    /\ hoveredRow' = NullIndex
    /\ hoveredCol' = NullIndex
    /\ exportPc' = [exportPc EXCEPT ![e] = "timer"]
    /\ UNCHANGED <<specificPeriod, showColorPicker, highColor, lowColor, pointer, snapshot>>
    /\ Render /\ NoCall

\* the main Export button: onClick={() => exportAsImage()}, disabled={isExporting}
exportClick ==
    /\ ~isExporting
    /\ \E e \in ExportIds : exportAsImage(e)
    /\ lastOp' = "exportClick"

\* a format button of the options dropdown, rendered while showExportOptions
exportOptionClick ==
    /\ showExportOptions
    /\ \E e \in ExportIds : exportAsImage(e)
    /\ lastOp' = "exportOptionClick"

\* onClick={() => setShowExportOptions(!showExportOptions)}, disabled={isExporting}
toggleExportOptions ==
    /\ ~isExporting
    /\ showExportOptions' = ~showExportOptions
    /\ lastOp' = "toggleExportOptions"
    /\ UNCHANGED <<hoveredCell, hoveredRow, hoveredCol, specificPeriod, showColorPicker,
                   highColor, lowColor, isExporting, exportPc, pointer, snapshot>>
    /\ Render /\ NoCall

\* mousedown outside .export-dropdown while the dropdown is open
handleClickOutside ==
    /\ showExportOptions
    /\ showExportOptions' = FALSE
    /\ lastOp' = "handleClickOutside"
    /\ UNCHANGED <<hoveredCell, hoveredRow, hoveredCol, specificPeriod, showColorPicker,
                   highColor, lowColor, isExporting, exportPc, pointer, snapshot>>
    /\ Render /\ NoCall

\* the 100 ms timer fires: html2canvas is called on the matrix as rendered now
exportTimer(e) ==
    /\ exportPc[e] = "timer"
    /\ exportPc' = [exportPc EXCEPT ![e] = "html2canvas"]
    /\ snapshot' = [cell |-> hoveredCell, row |-> hoveredRow, col |-> hoveredCol]
    /\ lastOp' = "html2canvas"
    /\ UNCHANGED <<hoveredCell, hoveredRow, hoveredCol, specificPeriod, showColorPicker,
                   highColor, lowColor, isExporting, showExportOptions, pointer>>
    /\ Render /\ NoCall

\* html2canvas resolves: the download is triggered, then finally { setIsExporting(false) }
exportResolved(e) ==
    /\ exportPc[e] = "html2canvas"
    /\ exportPc' = [exportPc EXCEPT ![e] = "idle"]
    /\ isExporting' = FALSE
    /\ snapshot' = null
    /\ lastOp' = "download"
    /\ UNCHANGED <<hoveredCell, hoveredRow, hoveredCol, specificPeriod, showColorPicker,
                   highColor, lowColor, showExportOptions, pointer>>
    /\ Render /\ NoCall

\* exportRejected with setIsExporting(false) at the end of try instead of in finally
exportRejectedNoFinally(e) ==
    /\ exportPc[e] = "html2canvas"
    /\ exportPc' = [exportPc EXCEPT ![e] = "idle"]
    /\ snapshot' = null
    /\ lastOp' = "alert"
    /\ UNCHANGED <<hoveredCell, hoveredRow, hoveredCol, specificPeriod, showColorPicker,
                   highColor, lowColor, isExporting, showExportOptions, pointer>>
    /\ Render /\ NoCall

\* html2canvas or toDataURL throws: catch { alert }, then finally { setIsExporting(false) }
exportRejected(e) ==
    /\ exportPc[e] = "html2canvas"
    /\ exportPc' = [exportPc EXCEPT ![e] = "idle"]
    /\ isExporting' = FALSE
    /\ snapshot' = null
    /\ lastOp' = "alert"
    /\ UNCHANGED <<hoveredCell, hoveredRow, hoveredCol, specificPeriod, showColorPicker,
                   highColor, lowColor, showExportOptions, pointer>>
    /\ Render /\ NoCall

Next ==
    \/ \E i \in Assets, j \in Assets : handleCellHover(i, j)
    \/ handleCellLeave
    \/ toggleColorPicker
    \/ \E c \in PickerColors : setLowColor(c)
    \/ \E c \in PickerColors : setHighColor(c)
    \/ resetColors
    \/ exportClick
    \/ exportOptionClick
    \/ toggleExportOptions
    \/ handleClickOutside
    \/ \E e \in ExportIds : exportTimer(e)
    \/ \E e \in ExportIds : exportResolved(e)
    \/ \E e \in ExportIds : exportRejected(e)

Spec == Init /\ [][Next]_vars

\* The steps of an export that the runtime takes on its own, as moves of the
\* export's position: the event loop runs the callback of setTimeout(resolve, 100)
\* (exportTimer), and the promise html2canvas returns settles, resolved or
\* rejected (exportResolved, exportRejected).
timerFires ==
    \E e \in ExportIds :
        exportPc[e] = "timer" /\ exportPc' = [exportPc EXCEPT ![e] = "html2canvas"]

promiseSettles ==
    \E e \in ExportIds :
        exportPc[e] = "html2canvas" /\ exportPc' = [exportPc EXCEPT ![e] = "idle"]

SpecFair ==
    /\ Spec
    /\ WF_exportPc(timerFires)
    /\ WF_exportPc(promiseSettles)

-----------------------------------------------------------------------------
(* Calls of the colour functions on drawn inputs *)

NoApp == UNCHANGED appVars

InitColors ==
    /\ AppInit
    /\ fn = "none"
    /\ hex1 \in HexInputs
    /\ hex2 \in HexInputs
    /\ num = Int2Num(0)
    /\ ret = <<>>
    /\ prevNum = Int2Num(0)
    /\ prevRet = <<>>

\* hexToRgb(hex1)
callHexToRgb ==
    /\ fn' = "hexToRgb"
    /\ ret' = hexToRgb(hex1)
    /\ num' = Int2Num(0) /\ prevNum' = Int2Num(0) /\ prevRet' = <<>>
    /\ UNCHANGED <<hex1, hex2>> /\ NoApp

\* const c = hexToRgb(hex1); rgbToHex(c.r, c.g, c.b)
callRgbToHex ==
    /\ hexToRgb(hex1) # null
    /\ fn' = "rgbToHex"
    /\ ret' = LET c == hexToRgb(hex1)
              IN  rgbToHex(Int2Num(c.r), Int2Num(c.g), Int2Num(c.b))
    /\ num' = Int2Num(0) /\ prevNum' = Int2Num(0) /\ prevRet' = <<>>
    /\ UNCHANGED <<hex1, hex2>> /\ NoApp

\* lerpColor(hex1, hex2, t)
callLerpColor(t) ==
    /\ fn' = "lerpColor"
    /\ num' = t
    /\ ret' = lerpColor(hex1, hex2, t)
    /\ prevNum' = Int2Num(0) /\ prevRet' = <<>>
    /\ UNCHANGED <<hex1, hex2>> /\ NoApp

\* colorFor(value, hex1, hex2); the call before it is kept when it was one too
callColorFor(value) ==
    /\ fn' = "colorFor"
    /\ num' = value
    /\ ret' = colorFor(value, hex1, hex2)
    /\ prevNum' = IF fn = "colorFor" THEN num ELSE Int2Num(0)
    /\ prevRet' = IF fn = "colorFor" THEN ret ELSE <<>>
    /\ UNCHANGED <<hex1, hex2>> /\ NoApp

\* colorFor(value): both colour parameters take their defaults
callColorForDefaults(value) ==
    /\ fn' = "colorForDefaults"
    /\ num' = value
    /\ ret' = colorFor(value, ColorForDefaultHigh, ColorForDefaultLow)
    /\ prevNum' = Int2Num(0) /\ prevRet' = <<>>
    /\ UNCHANGED <<hex1, hex2>> /\ NoApp

NextColors ==
    \/ callHexToRgb
    \/ callRgbToHex
    \/ \E t \in Factors : callLerpColor(t)
    \/ \E v \in Values : callColorFor(v)
    \/ \E v \in Values : callColorForDefaults(v)

SpecColors == InitColors /\ [][NextColors]_vars

-----------------------------------------------------------------------------
(* Vocabulary of the properties *)

LowerHexChars == {"0","1","2","3","4","5","6","7","8","9","a","b","c","d","e","f"}
HexChars == LowerHexChars \cup {"A","B","C","D","E","F"}

\* an optional '#' followed by exactly 6 hexadecimal digits, either case
MatchesHexPattern(h) ==
    \/ Len(h) = 6 /\ \A i \in 1..6 : h[i] \in HexChars
    \/ Len(h) = 7 /\ h[1] = "#" /\ \A i \in 2..7 : h[i] \in HexChars

\* '#' followed by exactly 6 lowercase hexadecimal digits
IsLowercaseHashHex(h) == Len(h) = 7 /\ h[1] = "#" /\ \A i \in 2..7 : h[i] \in LowerHexChars

LowerChar(c) ==
    CASE c = "A" -> "a" [] c = "B" -> "b" [] c = "C" -> "c"
      [] c = "D" -> "d" [] c = "E" -> "e" [] c = "F" -> "f" [] OTHER -> c

\* the lowercase '#'-prefixed spelling of a string that matches the pattern
CanonicalHex(h) ==
    LET digits == IF Len(h) = 7 THEN Tail(h) ELSE h
    IN  <<"#">> \o [i \in 1..6 |-> LowerChar(digits[i])]

Abs(x) == IF x < 0 THEN -x ELSE x
Channels == {"r", "g", "b"}
BothValid == MatchesHexPattern(hex1) /\ MatchesHexPattern(hex2)

-----------------------------------------------------------------------------
(* Properties of the colour functions, under SpecColors *)

\* C1 as stated: for valid H and L, colorFor(1, H, L) is the string H and
\* colorFor(-1, H, L) is the string L.
C1_EndpointsAreTheInputStrings ==
    (fn = "colorFor" /\ BothValid) =>
        /\ NumEq(num, Int2Num(1)) => ret = hex1
        /\ NumEq(num, Int2Num(-1)) => ret = hex2

\* C1 (amended): for valid H and L, colorFor(1, H, L) is H and colorFor(-1, H, L)
\* is L, each spelled in lowercase with a leading '#'.
C1_EndpointsCanonical ==
    (fn = "colorFor" /\ BothValid) =>
        /\ NumEq(num, Int2Num(1)) => ret = CanonicalHex(hex1)
        /\ NumEq(num, Int2Num(-1)) => ret = CanonicalHex(hex2)

C1_Witness ==
    /\ fn = "colorFor"
    /\ NumEq(num, Int2Num(1))
    /\ hex1 = <<"#","0","0","4","6","D","4">>
    /\ hex2 = <<"#","C","C","D","A","F","6">>
    /\ ret = <<"#","0","0","4","6","d","4">>

\* C2: out-of-domain values are clamped, never rejected: for valid H and L every
\* value >= 1 gives the colour of value 1, every value <= -1 gives the colour of
\* value -1, and no error is raised.
C2_Clamping ==
    (fn = "colorFor" /\ BothValid) =>
        /\ ret # InvalidHexError
        /\ NumLe(Int2Num(1), num) => ret = colorFor(Int2Num(1), hex1, hex2)
        /\ NumLe(num, Int2Num(-1)) => ret = colorFor(Int2Num(-1), hex1, hex2)

C2_Witness ==
    /\ fn = "colorFor"
    /\ BothValid
    /\ NumEq(num, Int2Num(-5))
    /\ hex1 # hex2
    /\ ret = CanonicalHex(hex2)

\* C3: colorFor is monotonic in its value: for valid H and L and v1 < v2 the
\* factors satisfy t1 <= t2, and on every channel the colour of v2 is at least as
\* close to H and at least as far from L as the colour of v1.
C3_Monotonic ==
    (fn = "colorFor" /\ prevRet # <<>> /\ BothValid /\ NumLt(prevNum, num)) =>
        LET c1 == hexToRgb(prevRet)
            c2 == hexToRgb(ret)
            H == hexToRgb(hex1)
            L == hexToRgb(hex2)
        IN  /\ NumLe(colorForT(prevNum), colorForT(num))
            /\ \A ch \in Channels :
                  /\ Abs(c2[ch] - H[ch]) <= Abs(c1[ch] - H[ch])
                  /\ Abs(c2[ch] - L[ch]) >= Abs(c1[ch] - L[ch])

C3_Witness ==
    /\ fn = "colorFor"
    /\ prevRet # <<>>
    /\ BothValid
    /\ NumLt(prevNum, num)
    /\ NumLt(Int2Num(-1), prevNum)
    /\ NumLt(num, Int2Num(1))
    /\ ret # prevRet

\* C4 as stated: for valid A and B, lerpColor(A, B, 0) is the string A and
\* lerpColor(A, B, 1) is the string B.
C4_LerpEndpointsAreTheInputStrings ==
    (fn = "lerpColor" /\ BothValid) =>
        /\ NumEq(num, Int2Num(0)) => ret = hex1
        /\ NumEq(num, Int2Num(1)) => ret = hex2

\* C4 (amended): for valid A and B, lerpColor(A, B, 0) is A and lerpColor(A, B, 1)
\* is B, each spelled in lowercase with a leading '#'.
C4_LerpEndpointsCanonical ==
    (fn = "lerpColor" /\ BothValid) =>
        /\ NumEq(num, Int2Num(0)) => ret = CanonicalHex(hex1)
        /\ NumEq(num, Int2Num(1)) => ret = CanonicalHex(hex2)

C4_Witness ==
    /\ fn = "lerpColor"
    /\ NumEq(num, Int2Num(1))
    /\ hex1 = <<"#","f","f","0","0","8","0">>
    /\ hex2 = <<"0","a","0","b","0","c">>
    /\ ret = <<"#","0","a","0","b","0","c">>

\* C5: round trip: for every lowercase '#'-prefixed 6-digit hex string h,
\* rgbToHex of the channels hexToRgb(h) returns is exactly h.
C5_RoundTrip ==
    (fn = "rgbToHex" /\ IsLowercaseHashHex(hex1)) => ret = hex1

C5_Witness ==
    /\ fn = "rgbToHex"
    /\ hex1 = <<"#","0","a","0","b","0","c">>
    /\ ret = hex1

\* C6: hexToRgb returns null for every string that is not an optional '#' and
\* exactly 6 hexadecimal digits, and a triple with each channel in 0..255 for
\* every string that is, in either letter case.
C6_HexToRgbTotal ==
    fn = "hexToRgb" =>
        IF MatchesHexPattern(hex1)
        THEN /\ ret # null
             /\ DOMAIN ret = Channels
             /\ \A ch \in Channels : ret[ch] \in 0..255
        ELSE ret = null

C6_Witness ==
    /\ fn = "hexToRgb"
    /\ hex1 = <<"#","G","G","G","G","G","G">>
    /\ ret = null

\* C7: lerpColor raises its error, and returns no colour, whenever either colour
\* argument fails to parse, for every t; so does colorFor for every value.
C7_MalformedColourThrows ==
    (fn \in {"lerpColor", "colorFor"} /\ ~BothValid) => ret = InvalidHexError

C7_Witness ==
    /\ fn = "colorFor"
    /\ MatchesHexPattern(hex1)
    /\ ~MatchesHexPattern(hex2)
    /\ ret = InvalidHexError

\* C9: colorFor called with a value alone uses the documented default gradient:
\* colorFor(value) is lerpColor('#0046D4', '#CCDAF6', 1 - t) with
\* t = clamp((value + 1) / 2, 0, 1), the colours the application starts with.
C9_DocumentedDefaults ==
    fn = "colorForDefaults" =>
        ret = lerpColor(<<"#","0","0","4","6","D","4">>, <<"#","C","C","D","A","F","6">>,
                        NumSub(Int2Num(1), colorForT(num)))

-----------------------------------------------------------------------------
(* Properties of the App component, under Spec *)

PairwiseDistinct(dots) ==
    \A i \in DOMAIN dots, j \in DOMAIN dots : i # j => dots[i] # dots[j]

\* some RGB channel of the two colours differs by at least the number of legend
\* intervals
FarApart(a, b) ==
    \E ch \in Channels : Abs(hexToRgb(a)[ch] - hexToRgb(b)[ch]) >= LegendSteps - 1

\* C8 as stated: for the current colour configuration the legend is exactly 8 hex
\* strings, pairwise distinct, the first equal to lowColor and the last equal to
\* highColor.
C8_LegendDistinctWithExactEnds ==
    /\ Len(legendDots) = 8
    /\ PairwiseDistinct(legendDots)
    /\ legendDots[1] = lowColor
    /\ legendDots[8] = highColor

\* C8 (amended): the legend is exactly 8 hex strings, the first equal to lowColor
\* and the last equal to highColor in their lowercase '#'-prefixed spelling, and
\* the 8 are pairwise distinct whenever some RGB channel of lowColor and highColor
\* differs by at least 7.
C8_LegendCanonicalEnds ==
    /\ Len(legendDots) = 8
    /\ \A k \in 1..8 : IsLowercaseHashHex(legendDots[k])
    /\ legendDots[1] = CanonicalHex(lowColor)
    /\ legendDots[8] = CanonicalHex(highColor)
    /\ FarApart(lowColor, highColor) => PairwiseDistinct(legendDots)

C8_Witness ==
    /\ lastOp = "setLowColor"
    /\ lowColor = <<"#","0","0","4","6","d","4">>
    /\ highColor = <<"#","c","c","d","a","f","9">>
    /\ PairwiseDistinct(legendDots)
    /\ legendDots[1] = lowColor
    /\ legendDots[8] = highColor

\* C10: resetColors sets highColor and lowColor back to the pair the application
\* starts with and leaves hover state, colour-picker visibility, export-menu
\* visibility, the exporting flag and the period selection unchanged.
C10_ResetFrame ==
    [][lastOp' = "resetColors" =>
          /\ highColor' = InitialHighColor
          /\ lowColor' = InitialLowColor
          /\ UNCHANGED <<hoveredCell, hoveredRow, hoveredCol, showColorPicker,
                         showExportOptions, isExporting, specificPeriod>>]_vars

C10_Witness ==
    /\ lastOp = "resetColors"
    /\ highColor = <<"#","0","0","4","6","D","4">>
    /\ lowColor = <<"#","C","C","D","A","F","6">>
    /\ isExporting
    /\ hoveredCell # null
    /\ showColorPicker


\* C11: hover effects are hidden during export: whenever html2canvas is called on
\* the matrix (after the 100 ms wait), hoveredCell, hoveredRow and hoveredCol are
\* all null, under every interleaving of mouse events with the export's steps.
C11_SnapshotHasNoHover ==
    snapshot # null =>
        /\ snapshot.cell = null
        /\ snapshot.row = NullIndex
        /\ snapshot.col = NullIndex


-----------------------------------------------------------------------------
(* Properties of the export, under SpecFair *)

ExportsInFlight == {e \in ExportIds : exportPc[e] # "idle"}

\* C12: every export that starts eventually finishes with isExporting back to
\* false, whether the rasterization succeeds or throws; and while isExporting is
\* true no second export starts: the options menu stays closed, at most one
\* export is in flight, and no step taken while isExporting is true is an export
\* click.
C12_ExportFinishesAndIsExclusive ==
    /\ \A e \in ExportIds : (exportPc[e] # "idle") ~> (exportPc[e] = "idle" /\ ~isExporting)
    /\ isExporting ~> ~isExporting
    /\ [](isExporting <=> ExportsInFlight # {})
    /\ [](isExporting => ~showExportOptions)
    /\ [](Cardinality(ExportsInFlight) <= 1)
    /\ [][isExporting => lastOp' \notin {"exportClick", "exportOptionClick"}]_vars

C12_Witness ==
    /\ lastOp = "alert"
    /\ ~isExporting
    /\ ExportsInFlight = {}

====
